---------------------------- MODULE Spec2Model ----------------------------
(***************************************************************************)
(* A model of the two AHP questionnaire applications of the repository:    *)
(*   src/KriteriaAHP.py   (geometric-mean weights, Supabase multi-user)    *)
(*   src/disertasiAHP.py  (principal-eigenvector weights)                  *)
(*                                                                         *)
(* Numbers.  The programs compute in IEEE doubles.  The model computes in  *)
(* exact rational arithmetic: a finite number is a pair <<num, den>> in    *)
(* lowest terms with den > 0, and the three non-finite results a numpy     *)
(* float64 division can produce are <<0, 0>> (nan), <<1, 0>> (inf) and     *)
(* <<-1, 0>> (-inf).                                                       *)
(* An n-th root is taken only where it is rational; states whose roots     *)
(* are irrational are not carried past the matrix stage.                   *)
(***************************************************************************)
EXTENDS Integers, Sequences, FiniteSets, TLC

VARIABLES
    variant,      \* which program's AHP core is applied: "Kriteria" | "disertasi"
    items,        \* the ordered item list handed to the matrix builder
    pairs,        \* KriteriaAHP: the judgment dict, in insertion order
    vals,         \* disertasiAHP: the judgment list (upper triangle, row by row)
    stage,        \* "input" | "built" | "solved" | "checked" | "raised"
    out,          \* what the core has produced so far
    users,        \* KriteriaAHP: rows of the table "users"
    submissions,  \* KriteriaAHP: rows of the table "submissions"
    sessionUser,  \* KriteriaAHP: st.session_state.user of the browser session
    run           \* KriteriaAHP: what the last script run did

coreVars == <<variant, items, pairs, vals, stage, out>>
appVars  == <<users, submissions, sessionUser, run>>
vars     == <<variant, items, pairs, vals, stage, out,
              users, submissions, sessionUser, run>>

(***************************************************************************)
(* Bounds of the model.                                                    *)
(***************************************************************************)
\* longest item list handed to a matrix builder with arbitrary judgments
MaxItems == 3
\* most judgments put into one judgment dict / judgment list
MaxEntries == 3
\* largest matrix order carried through weights and consistency
MaxOrder == 13
\* largest matrix order for which every scale value is tried on every pair
MaxFull == 3

(***************************************************************************)
(* Exact rational arithmetic.                                              *)
(***************************************************************************)
Abs(x) == IF x < 0 THEN -x ELSE x

RECURSIVE GCD(_, _)
GCD(a, b) == IF b = 0 THEN a ELSE GCD(b, a % b)

Norm(n, d) ==
    LET s == IF d < 0 THEN -1 ELSE 1
        g == GCD(Abs(n), Abs(d))
    IN  <<(s * n) \div g, (s * d) \div g>>

Rat(n)     == <<n, 1>>
Zero       == <<0, 1>>
One        == <<1, 1>>
RAdd(p, q) == Norm(p[1] * q[2] + q[1] * p[2], p[2] * q[2])
RSub(p, q) == Norm(p[1] * q[2] - q[1] * p[2], p[2] * q[2])
RMul(p, q) == Norm(p[1] * q[1], p[2] * q[2])
RDiv(p, q) == Norm(p[1] * q[2], p[2] * q[1])
RInv(q)    == Norm(q[2], q[1])

NaN    == <<0, 0>>
PosInf == <<1, 0>>
NegInf == <<-1, 0>>
IsFinite(x) == x[2] # 0

RECURSIVE IPow(_, _)
IPow(b, e) == IF e = 0 THEN 1 ELSE b * IPow(b, e - 1)

\* the rational n-th root of a positive rational, or "irrational"
HasIntRoot(x, n) == \E r \in 0..x : IPow(r, n) = x
IntRoot(x, n)    == CHOOSE r \in 0..x : IPow(r, n) = x
HasRoot(q, n)    == HasIntRoot(q[1], n) /\ HasIntRoot(q[2], n)
Root(q, n)       == <<IntRoot(q[1], n), IntRoot(q[2], n)>>

RECURSIVE SumSeq(_)
SumSeq(s) == IF s = <<>> THEN Zero ELSE RAdd(Head(s), SumSeq(Tail(s)))

RECURSIVE ProdSeq(_)
ProdSeq(s) == IF s = <<>> THEN One ELSE RMul(Head(s), ProdSeq(Tail(s)))

\* numpy float64 division: x / 0 warns and yields nan or +-inf, never raises
FDiv(x, y) ==
    IF x = NaN \/ y = NaN THEN NaN
    ELSE IF ~IsFinite(x) THEN
        (IF ~IsFinite(y) THEN NaN
         ELSE IF y[1] < 0 THEN <<-x[1], 0>> ELSE x)
    ELSE IF ~IsFinite(y) THEN Zero
    ELSE IF y[1] = 0 THEN
        (IF x[1] = 0 THEN NaN ELSE IF x[1] > 0 THEN PosInf ELSE NegInf)
    ELSE RDiv(x, y)

(***************************************************************************)
(* The judgment scale: pairwise_ui offers 1..9 and stores the value or its *)
(* reciprocal; select_slider offers 1/9..9.  The model tries the values of *)
(* ScaleNums and their reciprocals.                                        *)
(***************************************************************************)
ScaleNums == {1, 2, 4}
Scale     == {Rat(k) : k \in ScaleNums} \cup {Norm(1, k) : k \in ScaleNums}

ItemNames == <<"c01", "c02", "c03", "c04", "c05", "c06", "c07", "c08",
               "c09", "c10", "c11", "c12", "c13", "c14", "c15", "c16">>
ItemList(n) == SubSeq(ItemNames, 1, n)

\* idx = {k: i for i, k in enumerate(items)}
Idx(its, k) == CHOOSE i \in 1..Len(its) : its[i] = k

Ones(n) == [i \in 1..n |-> [j \in 1..n |-> One]]

(***************************************************************************)
(* KriteriaAHP.build_matrix.  `ps` is the dict's items() in insertion      *)
(* order, each a record [a, b, v].  The loop's k-th iteration writes       *)
(* M[i, j] = v and then M[j, i] = 1 / v for its key (a, b), so the matrix  *)
(* it ends with holds, in each cell, what the last iteration that wrote    *)
(* the cell put there, and 1 where none did.  A zero value raises          *)
(* ZeroDivisionError at `1 / v`; the function then returns nothing.        *)
(***************************************************************************)
Forward(its, ps, i, j)  == {k \in 1..Len(ps) : ps[k].a = its[i] /\ ps[k].b = its[j]}
Backward(its, ps, i, j) == {k \in 1..Len(ps) : ps[k].a = its[j] /\ ps[k].b = its[i]}
Last(S) == CHOOSE k \in S : \A m \in S : m <= k

\* build_matrix's loop without the line `M[j, i] = 1 / v`
build_loop_one_sided(its, ps) ==
    [i \in 1..Len(its) |-> [j \in 1..Len(its) |->
        IF Forward(its, ps, i, j) = {} THEN One
        ELSE ps[Last(Forward(its, ps, i, j))].v]]

build_loop(its, ps) ==
    [i \in 1..Len(its) |-> [j \in 1..Len(its) |->
        LET W == Forward(its, ps, i, j) \cup Backward(its, ps, i, j)
        IN  IF W = {} THEN One
            ELSE IF Last(W) \in Forward(its, ps, i, j) THEN ps[Last(W)].v
            ELSE RInv(ps[Last(W)].v)]]

build_matrix(its, ps) ==
    IF {k \in 1..Len(ps) : ps[k].v = Zero} # {}
    THEN [kind |-> "raised", error |-> "ZeroDivisionError"]
    ELSE [kind |-> "matrix", M |-> build_loop(its, ps)]

(***************************************************************************)
(* disertasiAHP.build_pairwise_matrix: values[idx] for i < j, row by row.  *)
(* A list that is too short raises IndexError, unless a zero read before   *)
(* its end has already raised ZeroDivisionError; surplus values are unread. *)
(***************************************************************************)
num_comparisons(n) == (n * (n - 1)) \div 2

\* idx of the pair (i, j), i < j, in the row-by-row enumeration (1-based)
PairIndex(n, i, j) == num_comparisons(n) - num_comparisons(n - i + 1) + (j - i)

build_pairwise_matrix(its, vs) ==
    LET n == Len(its)
        need == num_comparisons(n)
    IN  IF \E k \in 1..need : k <= Len(vs) /\ vs[k] = Zero
        THEN [kind |-> "raised", error |-> "ZeroDivisionError"]
        ELSE IF Len(vs) < need
        THEN [kind |-> "raised", error |-> "IndexError"]
        ELSE [kind |-> "matrix",
              M |-> [i \in 1..n |-> [j \in 1..n |->
                        IF i = j THEN One
                        ELSE IF i < j THEN vs[PairIndex(n, i, j)]
                        ELSE RInv(vs[PairIndex(n, j, i)])]]]

(***************************************************************************)
(* Vectors and matrices over the rationals.                                *)
(***************************************************************************)
MatVec(M, w) == [i \in 1..Len(M) |-> SumSeq([j \in 1..Len(M) |-> RMul(M[i][j], w[j])])]
VDiv(u, w)   == [i \in 1..Len(u) |-> RDiv(u[i], w[i])]
Mean(u)      == RDiv(SumSeq(u), Rat(Len(u)))
Scaled(u)    == [i \in 1..Len(u) |-> RDiv(u[i], SumSeq(u))]

(***************************************************************************)
(* KriteriaAHP.ahp_weights: gm = prod(M, axis=1) ** (1 / n); gm / gm.sum() *)
(***************************************************************************)
RowProducts(M) == [i \in 1..Len(M) |-> ProdSeq(M[i])]
ExactRoots(M)  == {i \in 1..Len(M) : ~HasRoot(RowProducts(M)[i], Len(M))} = {}
ahp_weights(M) ==
    LET gm == [i \in 1..Len(M) |-> Root(RowProducts(M)[i], Len(M))]
    IN  Scaled(gm)

(***************************************************************************)
(* The random-index tables, in hundredths.                                 *)
(***************************************************************************)
RI_DICT  == <<0, 0, 58, 90, 112, 124, 132, 141, 145, 149, 151, 148>>
RI_table == <<0, 0, 58, 90, 112, 124, 132, 141, 145, 149>>
RI_default == 149

\* the lookup had RI_DICT ended at 10: 1.49 like disertasiAHP's RI_table
RI_DICT_get_to_10(n) ==
    IF n \in 1..10 THEN Norm(RI_DICT[n], 100) ELSE Norm(RI_default, 100)

\* RI_DICT.get(n, 1.49)
RI_DICT_get(n) ==
    IF n \in DOMAIN RI_DICT THEN Norm(RI_DICT[n], 100) ELSE Norm(RI_default, 100)

\* RI_table.get(n, 1.49)
RI_table_get(n) ==
    IF n \in DOMAIN RI_table THEN Norm(RI_table[n], 100) ELSE Norm(RI_default, 100)

(***************************************************************************)
(* KriteriaAHP.consistency.  lam is a numpy float64, so both divisions are *)
(* float64 divisions: they never raise.                                    *)
(***************************************************************************)
consistency(M, w) ==
    LET n   == Len(M)
        lam == Mean(VDiv(MatVec(M, w), w))
        CI  == FDiv(RSub(lam, Rat(n)), Rat(n - 1))
        RI  == RI_DICT_get(n)
        CR  == FDiv(CI, RI)
    IN  [CI |-> CI, CR |-> CR, RI |-> RI, lam |-> lam]

(***************************************************************************)
(* disertasiAHP.priority_vector.  numpy.linalg.eig is modelled where its   *)
(* result is rational: on a matrix of rank one (every reciprocal matrix of *)
(* order 1 or 2 and every consistent one: every entry is                   *)
(* M[i][1] * M[1][j] / M[1][1]) the eigenvalues are the trace and n - 1    *)
(* zeros, and the column space is the trace's eigenspace.                  *)
(***************************************************************************)
RankOne(M) ==
    {p \in (1..Len(M)) \X (1..Len(M)) :
        RMul(M[p[1]][p[2]], M[1][1]) # RMul(M[p[1]][1], M[1][p[2]])} = {}
Trace(M)   == SumSeq([i \in 1..Len(M) |-> M[i][i]])
eigvals(M) == [k \in 1..Len(M) |-> IF k = 1 THEN Trace(M) ELSE Zero]
eigvecs(M) == [k \in 1..Len(M) |->
                 IF k = 1 THEN [i \in 1..Len(M) |-> M[i][1]]
                 ELSE [i \in 1..Len(M) |-> IF i = 1 THEN RSub(Zero, M[1][k])
                                          ELSE IF i = k THEN M[1][1] ELSE Zero]]
RLess(p, q) == p[1] * q[2] < q[1] * p[2]
\* np.argmax: the first index holding the largest value
argmax(s) == CHOOSE k \in 1..Len(s) :
                /\ \A m \in 1..Len(s) : ~RLess(s[k], s[m])
                /\ \A m \in 1..(k - 1) : RLess(s[m], s[k])
RAbs(q) == <<Abs(q[1]), q[2]>>
priority_vector(M) ==
    LET max_index == argmax(eigvals(M))
        vec == [i \in 1..Len(M) |-> RAbs(eigvecs(M)[max_index][i])]
    IN  Scaled(vec)

(***************************************************************************)
(* disertasiAHP.consistency_ratio                                          *)
(***************************************************************************)
consistency_ratio(M) ==
    LET n   == Len(M)
        vec == priority_vector(M)
        lam == RDiv(SumSeq(VDiv(MatVec(M, vec), vec)), Rat(n))
        CI  == IF n > 2 THEN FDiv(RSub(lam, Rat(n)), Rat(n - 1)) ELSE Zero
        RI  == RI_table_get(n)
        CR  == IF RI # Zero THEN FDiv(CI, RI) ELSE Zero
    IN  [CI |-> CI, CR |-> CR, RI |-> RI, lam |-> lam]

(***************************************************************************)
(* The AHP core as a pipeline: judgments -> matrix -> weights ->           *)
(* consistency (KriteriaAHP.py lines 250-252, disertasiAHP.py lines        *)
(* 225-227).                                                               *)
(***************************************************************************)
Variants == {"Kriteria", "disertasi"}
NoOut    == [kind |-> "none"]
\* st.session_state.user = None
NoUser   == [id |-> 0]
\* no script run of the application has happened
NoRun    == [pc |-> "done", mode |-> "none", loginFailed |-> FALSE,
             priorUser |-> FALSE, body |-> "none", admin |-> [ended |-> "none"]]

\* the app tables and session are not part of the core
AppIdle ==
    /\ users = <<>>
    /\ submissions = <<>>
    /\ sessionUser = NoUser
    /\ run = NoRun

\* the pair (i, j), i < j, that itertools.combinations / the nested loops
\* enumerate k-th
PairAt(n, k) == CHOOSE p \in (1..n) \X (1..n) : p[1] < p[2] /\ PairIndex(n, p[1], p[2]) = k

\* the judgment values tried by the matrix-builder specification
BuildValues == {Zero, One, Rat(2)}

HasKey(ps, a, b) == \E k \in 1..Len(ps) : ps[k].a = a /\ ps[k].b = b

\* pairs[(a, b)] = v for a key the insertion-ordered dict does not hold yet
DictPut(ps, a, b, v) == Append(ps, [a |-> a, b |-> b, v |-> v])

InitBuild ==
    /\ variant \in Variants
    /\ \E n \in 1..MaxItems : items = ItemList(n)
    /\ pairs = <<>>
    /\ vals = <<>>
    /\ stage = "input"
    /\ out = NoOut
    /\ AppIdle

\* the caller stores one judgment, between two different items, under a new
\* key of the dict it will hand to build_matrix
PutJudgment ==
    /\ variant = "Kriteria"
    /\ stage = "input"
    /\ \E i, j \in 1..Len(items) : \E v \in BuildValues :
          /\ i # j
          /\ ~HasKey(pairs, items[i], items[j])
          /\ Len(pairs) < MaxEntries
          /\ pairs' = DictPut(pairs, items[i], items[j], v)
    /\ UNCHANGED <<variant, items, vals, stage, out>>
    /\ UNCHANGED appVars

\* the caller appends one judgment to the list it will hand to
\* build_pairwise_matrix
AppendValue ==
    /\ variant = "disertasi"
    /\ stage = "input"
    /\ Len(vals) < MaxEntries
    /\ \E v \in BuildValues : vals' = Append(vals, v)
    /\ UNCHANGED <<variant, items, pairs, stage, out>>
    /\ UNCHANGED appVars

BuildMatrix ==
    /\ variant = "Kriteria"
    /\ stage = "input"
    /\ out' = build_matrix(items, pairs)
    /\ stage' = IF out'.kind = "matrix" THEN "built" ELSE "raised"
    /\ UNCHANGED <<variant, items, pairs, vals>>
    /\ UNCHANGED appVars

BuildPairwise ==
    /\ variant = "disertasi"
    /\ stage = "input"
    /\ out' = build_pairwise_matrix(items, vals)
    /\ stage' = IF out'.kind = "matrix" THEN "built" ELSE "raised"
    /\ UNCHANGED <<variant, items, pairs, vals>>
    /\ UNCHANGED appVars

NextBuild == PutJudgment \/ AppendValue \/ BuildMatrix \/ BuildPairwise

SpecBuild == InitBuild /\ [][NextBuild]_vars

(***************************************************************************)
(* Claims about the matrix builders (SpecBuild).                           *)
(***************************************************************************)
Reciprocal(M) ==
    /\ \A i \in 1..Len(M) : M[i][i] = One
    /\ \A i, j \in 1..Len(M) : i # j => RMul(M[i][j], M[j][i]) = One

\* some unordered pair of distinct items has no judgment
MissingPair ==
    IF variant = "Kriteria"
    THEN \E i, j \in 1..Len(items) :
            /\ i < j
            /\ ~HasKey(pairs, items[i], items[j])
            /\ ~HasKey(pairs, items[j], items[i])
    ELSE Len(vals) < num_comparisons(Len(items))

\* the same unordered pair is judged under both orderings, (a,b) -> v and
\* (b,a) -> u, with u # 1/v
ConflictingPair ==
    \E k, m \in 1..Len(pairs) :
        /\ pairs[k].a = pairs[m].b
        /\ pairs[k].b = pairs[m].a
        /\ RMul(pairs[k].v, pairs[m].v) # One

C2_MissingPairRejected == (stage # "input" /\ MissingPair) => stage = "raised"

\* C3: when a pair is given under both orderings with values that are not
\* reciprocal, the build fails and returns no matrix.
C3_ConflictRejected ==
    (variant = "Kriteria" /\ stage # "input" /\ ConflictingPair) => stage = "raised"

(***************************************************************************)
(* SpecCore: one complete judgment set (one value per pair i < j, in the   *)
(* order pairwise_ui / the select_slider loops produce them) is carried    *)
(* through build, weights and consistency.  Orders up to MaxFull try every *)
(* scale value on every pair; larger orders, up to MaxOrder, are the       *)
(* all-ones judgment set.                                                  *)
(***************************************************************************)
Judgments(n) ==
    IF n <= MaxFull THEN [1..num_comparisons(n) -> Scale]
    ELSE {[k \in 1..num_comparisons(n) |-> One]}

\* pairwise_ui: pairs[(a, b)] for (a, b) in itertools.combinations(items, 2)
pairwise_ui(its, f) ==
    [k \in 1..num_comparisons(Len(its)) |->
        [a |-> its[PairAt(Len(its), k)[1]],
         b |-> its[PairAt(Len(its), k)[2]],
         v |-> f[k]]]

InitCore ==
    /\ variant \in Variants
    /\ \E n \in 1..MaxOrder : \E f \in Judgments(n) :
          /\ items = ItemList(n)
          /\ pairs = IF variant = "Kriteria" THEN pairwise_ui(items, f) ELSE <<>>
          /\ vals = IF variant = "disertasi" THEN f ELSE <<>>
    /\ stage = "input"
    /\ out = NoOut
    /\ AppIdle

\* w = ahp_weights(M)
Weights ==
    /\ variant = "Kriteria"
    /\ stage = "built"
    /\ ExactRoots(out.M)
    /\ out' = [kind |-> "weights", M |-> out.M, w |-> ahp_weights(out.M)]
    /\ stage' = "solved"
    /\ UNCHANGED <<variant, items, pairs, vals>>
    /\ UNCHANGED appVars

\* weights = priority_vector(M)
PriorityVector ==
    /\ variant = "disertasi"
    /\ stage = "built"
    /\ RankOne(out.M)
    /\ out' = [kind |-> "weights", M |-> out.M, w |-> priority_vector(out.M)]
    /\ stage' = "solved"
    /\ UNCHANGED <<variant, items, pairs, vals>>
    /\ UNCHANGED appVars

\* CI, CR = consistency(M, w)
Consistency ==
    /\ variant = "Kriteria"
    /\ stage = "solved"
    /\ LET c == consistency(out.M, out.w)
       IN  out' = [kind |-> "result", M |-> out.M, w |-> out.w,
                   CI |-> c.CI, CR |-> c.CR, RI |-> c.RI]
    /\ stage' = "checked"
    /\ UNCHANGED <<variant, items, pairs, vals>>
    /\ UNCHANGED appVars

\* CRx = consistency_ratio(M)
ConsistencyRatio ==
    /\ variant = "disertasi"
    /\ stage = "solved"
    /\ LET c == consistency_ratio(out.M)
       IN  out' = [kind |-> "result", M |-> out.M, w |-> out.w,
                   CI |-> c.CI, CR |-> c.CR, RI |-> c.RI]
    /\ stage' = "checked"
    /\ UNCHANGED <<variant, items, pairs, vals>>
    /\ UNCHANGED appVars

NextCore ==
    \/ BuildMatrix
    \/ BuildPairwise
    \/ Weights
    \/ PriorityVector
    \/ Consistency
    \/ ConsistencyRatio

SpecCore == InitCore /\ [][NextCore]_vars

(***************************************************************************)
(* Claims about weights and consistency (SpecCore).                        *)
(***************************************************************************)
N == Len(items)

AllJudgmentsOne ==
    /\ \A k \in 1..Len(pairs) : pairs[k].v = One
    /\ \A k \in 1..Len(vals) : vals[k] = One

Uniform(w, n) == Len(w) = n /\ \A i \in 1..n : w[i] = Norm(1, n)

\* C4: for a matrix of order 1 or 2 (RI = 0) the consistency check returns
\* CR = 0: a finite value, not the result of a division by zero.
C4_ZeroRIGivesZeroCR == (stage = "checked" /\ N <= 2) => out.CR = Zero

\* the random index in hundredths: the table of orders 1..10, and `over`
\* for the orders above 10
TableRI(n, over) ==
    CASE n = 1 -> 0    [] n = 2 -> 0    [] n = 3 -> 58   [] n = 4 -> 90
      [] n = 5 -> 112  [] n = 6 -> 124  [] n = 7 -> 132  [] n = 8 -> 141
      [] n = 9 -> 145  [] n = 10 -> 149 [] OTHER -> over

\* C5 as stated: the random index used for order n is the table value for
\* n in 1..10 and 1.49 for every n > 10, in both programs.
C5_RIFallbackAbove10 ==
    stage = "checked" => RMul(out.RI, Rat(100)) = Rat(TableRI(N, 149))

\* C5 amended: the random index used for order n is the table value for n in
\* 1..10; above 10, disertasiAHP uses 1.49, and KriteriaAHP uses 1.51 for
\* n = 11, 1.48 for n = 12 and 1.49 for n > 12.
C5_RITable ==
    stage = "checked" =>
        RMul(out.RI, Rat(100)) =
            Rat(TableRI(N, IF variant = "Kriteria" /\ N = 11 THEN 151
                           ELSE IF variant = "Kriteria" /\ N = 12 THEN 148
                           ELSE 149))

\* C5 witness: KriteriaAHP's consistency has run on a matrix of order 12, the
\* number of criteria of the application.
C5_Witness ==
    /\ variant = "Kriteria"
    /\ stage = "checked"
    /\ N = 12
    /\ out.CR = Zero

\* C6: a single item yields the weight vector [1], CI = 0 and CR = 0.
C6_SingleItem ==
    N = 1 =>
        /\ stage \in {"solved", "checked"} => out.w = <<One>>
        /\ stage = "checked" => out.CI = Zero /\ out.CR = Zero

\* C7: when every judgment is 1, the weights are uniform (1/n each) and the
\* consistency check returns CI = 0 and CR = 0, for every n >= 1.
C7_AllOnesConsistent ==
    AllJudgmentsOne =>
        /\ stage \in {"solved", "checked"} => Uniform(out.w, N)
        /\ stage = "checked" => out.CI = Zero /\ out.CR = Zero

(***************************************************************************)
(* KriteriaAHP.py as a Streamlit application.  One script run is one       *)
(* action: the sidebar (lines 171-210), the page selection (216-220) and   *)
(* the body of the selected page (245-329).                                *)
(*                                                                         *)
(* Strings that the program takes apart are sequences of characters.  The  *)
(* application's CRITERIA holds twelve names; the model carries the first  *)
(* two through the questionnaire, the table "submissions" and the admin    *)
(* aggregation.  A submission row keeps id, user_id and main_pairs;        *)
(* timestamp and result_json, which the aggregation never reads, are left  *)
(* out.  The database numbers the rows of a table 1, 2, 3, ... as they are *)
(* inserted.                                                               *)
(***************************************************************************)
\* most rows of the table "users"
MaxUsers == 2
\* most rows of the table "submissions"
MaxSubs == 2

CRITERIA == << <<"I", "m", "a", "g", "e", " ", "T", "i", "t", "l", "e">>,
              <<"C", "o", "m", "p", "a", "r", "i", "s", "o", "n", " ", "S", "c", "a", "l", "e">> >>

Usernames == {"ana", "budi"}
Passwords == {"pw1", "pw2"}
Salts     == {"s1"}
\* the registrations tried: an administrator, an expert, and the expert's
\* username once more as an administrator with another password
Registrations == {[u |-> "ana", p |-> "pw1", a |-> TRUE],
                  [u |-> "budi", p |-> "pw2", a |-> FALSE],
                  [u |-> "budi", p |-> "pw1", a |-> TRUE]}
\* the values a questionnaire stores for a pair: scale 2 with the arrow
\* either way
AppScale  == {Rat(2), Norm(1, 2)}

\* hashlib.pbkdf2_hmac("sha256", password, salt, 200000), taken as injective
pbkdf2(password, salt) == <<"pbkdf2", password, salt>>

hash_password(password, salt) == [salt |-> salt, dk |-> pbkdf2(password, salt)]

verify_password(password, salt_hex, hash_hex) == pbkdf2(password, salt_hex) = hash_hex

\* the table "users" after register_user's insert
register_user(username, password, is_admin, salt) ==
    Append(users, [id |-> Len(users) + 1,
                   username |-> username,
                   pw_salt |-> hash_password(password, salt).salt,
                   pw_hash |-> hash_password(password, salt).dk,
                   is_admin |-> is_admin])

\* what login can return: None, or res[0] when its password verifies; the
\* select has no ORDER BY, so res[0] is any row with that username
login(username, password) ==
    LET res == {k \in 1..Len(users) : users[k].username = username}
    IN  IF res = {} THEN {NoUser}
        ELSE {IF verify_password(password, users[k].pw_salt, users[k].pw_hash)
              THEN users[k] ELSE NoUser : k \in res}

(***************************************************************************)
(* The key of main_pairs: f"{a}|||{b}", and k.split("|||").                *)
(***************************************************************************)
Sep == <<"|", "|", "|">>
JoinKey(a, b) == a \o Sep \o b

SepAt(s) == {i \in 1..(Len(s) - 2) : SubSeq(s, i, i + 2) = Sep}
First(S) == CHOOSE i \in S : \A m \in S : i <= m
RECURSIVE split(_)
split(s) ==
    IF SepAt(s) = {} THEN <<s>>
    ELSE <<SubSeq(s, 1, First(SepAt(s)) - 1)>>
            \o split(SubSeq(s, First(SepAt(s)) + 3, Len(s)))

\* {f"{a}|||{b}": v for (a, b), v in main_pairs.items()}
encode_pairs(ps) == [k \in 1..Len(ps) |-> [key |-> JoinKey(ps[k].a, ps[k].b), v |-> ps[k].v]]

\* {tuple(k.split("|||")): v for k, v in s["main_pairs"].items()}
decode_pairs(mp) == [k \in 1..Len(mp) |-> [parts |-> split(mp[k].key), v |-> mp[k].v]]

\* build_matrix(CRITERIA, mp): `for (a, b), v in pairs.items()` unpacks each
\* key into two names and looks both up in idx
admin_build(mp) ==
    LET d == decode_pairs(mp)
    IN  IF {k \in 1..Len(d) : Len(d[k].parts) # 2} # {}
        THEN [kind |-> "raised", error |-> "ValueError"]
        ELSE IF {k \in 1..Len(d) : \E m \in 1..2 :
                    d[k].parts[m] \notin {CRITERIA[i] : i \in 1..Len(CRITERIA)}} # {}
        THEN [kind |-> "raised", error |-> "KeyError"]
        ELSE build_matrix(CRITERIA,
                 [k \in 1..Len(d) |-> [a |-> d[k].parts[1], b |-> d[k].parts[2], v |-> d[k].v]])

(***************************************************************************)
(* DB functions.                                                           *)
(***************************************************************************)
\* the table "submissions" after save_submission's insert
save_submission(uid, main_pairs) ==
    Append(submissions, [id |-> Len(submissions) + 1,
                         user_id |-> uid,
                         main_pairs |-> main_pairs])

NoSub == [id |-> 0]

\* order("id", desc=True).limit(1) had it been ascending
latest_submission_oldest(uid) ==
    LET r == {k \in 1..Len(submissions) : submissions[k].user_id = uid}
    IN  IF r = {} THEN NoSub
        ELSE submissions[CHOOSE k \in r :
                \A m \in r : submissions[k].id <= submissions[m].id]

\* select("*").eq("user_id", uid).order("id", desc=True).limit(1): r[0] or None
latest_submission(uid) ==
    LET r == {k \in 1..Len(submissions) : submissions[k].user_id = uid}
    IN  IF r = {} THEN NoSub
        ELSE submissions[CHOOSE k \in r :
                \A m \in r : submissions[m].id <= submissions[k].id]

\* latest_all: (u, s) for every user, in table order, that has a submission
RECURSIVE latest_from(_)
latest_from(k) ==
    IF k > Len(users) THEN <<>>
    ELSE (IF latest_submission(users[k].id) # NoSub
          THEN <<[u |-> users[k], s |-> latest_submission(users[k].id)]>>
          ELSE <<>>) \o latest_from(k + 1)

latest_all == latest_from(1)

(***************************************************************************)
(* The admin page's aggregation (lines 309-321):                           *)
(*   GM = np.exp(np.mean(np.log(mats), axis=0))                            *)
(* With no matrix, np.log([]) is an empty array, its mean over axis 0 is   *)
(* the scalar nan (a warning, no exception), and np.prod(nan, axis=1) in   *)
(* ahp_weights raises AxisError.  With K matrices each cell is the K-th    *)
(* root of the product of the K cells, taken where it is rational.         *)
(***************************************************************************)
aggregate(mats) ==
    LET K == Len(mats)
        n == Len(CRITERIA)
        P == [i \in 1..n |-> [j \in 1..n |-> ProdSeq([k \in 1..K |-> mats[k][i][j]])]]
    IN  IF K = 0 THEN [kind |-> "nan"]
        ELSE IF {c \in (1..n) \X (1..n) : ~HasRoot(P[c[1]][c[2]], K)} # {}
        THEN [kind |-> "irrational"]
        ELSE [kind |-> "matrix",
              M |-> [i \in 1..n |-> [j \in 1..n |-> Root(P[i][j], K)]]]

\* the page "Admin - Gabungan Pakar": the (user id, submission id, matrix)
\* rows it aggregates, the aggregate, the core functions it calls in order,
\* and how it ends
admin_page ==
    LET rows   == latest_all
        builds == [k \in 1..Len(rows) |-> admin_build(rows[k].s.main_pairs)]
        failed == {k \in 1..Len(rows) : builds[k].kind # "matrix"}
        mats   == [k \in 1..Len(rows) |-> builds[k].M]
        inputs == [k \in 1..Len(rows) |->
                     [uid |-> rows[k].u.id, sid |-> rows[k].s.id, M |-> builds[k].M]]
        GM     == aggregate(mats)
    IN  IF failed # {}
        THEN [inputs |-> <<>>, GM |-> [kind |-> "none"],
              called |-> <<"build_matrix">>, ended |-> "raised"]
        ELSE IF GM.kind = "nan"
        THEN [inputs |-> inputs, GM |-> GM,
              called |-> <<"build_matrix", "ahp_weights">>, ended |-> "raised"]
        ELSE [inputs |-> inputs, GM |-> GM,
              called |-> <<"build_matrix", "ahp_weights", "consistency">>,
              ended |-> "table"]

(***************************************************************************)
(* One script run, in two steps: the sidebar (lines 171-210), which ends   *)
(* the run at st.stop() when no user is logged in, and then the page       *)
(* selection and the body of the selected page (lines 216-329).  `pc` is   *)
(* the field of `run` that says where the run stands: "page" between the   *)
(* two steps, "done" after the run.                                        *)
(***************************************************************************)
\* what the sidebar's widgets hold in a run: the mode, whether the mode's
\* button was clicked, and the text inputs and checkbox the click reads
SidebarInputs ==
    {[mode |-> "Logout", click |-> FALSE, u |-> "", p |-> "", a |-> FALSE]}
    \cup {[mode |-> m, click |-> FALSE, u |-> "", p |-> "", a |-> FALSE] :
             m \in {"Login", "Register"}}
    \cup {[mode |-> "Login", click |-> TRUE, u |-> u, p |-> p, a |-> FALSE] :
             u \in Usernames, p \in Passwords}
    \cup {[mode |-> "Register", click |-> TRUE, u |-> r.u, p |-> r.p, a |-> r.a] :
             r \in Registrations}

\* pages = ["Isi Kuesioner", "Hasil Saya"] and "Admin - Gabungan Pakar" for
\* everybody
PagesForAll(user) == {"Isi Kuesioner", "Hasil Saya", "Admin"}

\* pages, with "Admin - Gabungan Pakar" appended if user["is_admin"]
Pages(user) ==
    {"Isi Kuesioner", "Hasil Saya"} \cup (IF user.is_admin THEN {"Admin"} ELSE {})

NoAdmin == [ended |-> "none"]

\* the sidebar, lines 171-210
Sidebar ==
    /\ run.pc = "done"
    /\ \E in \in SidebarInputs, salt \in Salts :
        /\ (in.mode = "Register" /\ in.click) => Len(users) < MaxUsers
        /\ users' = IF in.mode = "Register" /\ in.click
                    THEN register_user(in.u, in.p, in.a, salt) ELSE users
        /\ \E r \in (IF in.mode = "Login" /\ in.click THEN login(in.u, in.p) ELSE {NoUser}) :
            /\ sessionUser' = IF in.mode = "Logout" THEN NoUser
                              ELSE IF r # NoUser THEN r
                              ELSE sessionUser
            /\ run' = [pc |-> IF sessionUser' = NoUser THEN "done" ELSE "page",
                       mode |-> in.mode,
                       loginFailed |-> (in.mode = "Login" /\ in.click /\ r = NoUser),
                       priorUser |-> (sessionUser # NoUser),
                       body |-> "none",
                       admin |-> NoAdmin]
    /\ UNCHANGED submissions
    /\ UNCHANGED coreVars

\* page "Isi Kuesioner" without "Simpan": the questionnaire is drawn
PageKuesioner ==
    /\ run.pc = "page"
    /\ "Isi Kuesioner" \in Pages(sessionUser)
    /\ run' = [run EXCEPT !.pc = "done", !.body = "Isi Kuesioner"]
    /\ UNCHANGED <<users, submissions, sessionUser>>
    /\ UNCHANGED coreVars

\* page "Isi Kuesioner" with "Simpan": lines 249-274
PageSimpan ==
    /\ run.pc = "page"
    /\ "Isi Kuesioner" \in Pages(sessionUser)
    /\ Len(submissions) < MaxSubs
    /\ \E f \in [1..num_comparisons(Len(CRITERIA)) -> AppScale] :
          LET main_pairs == pairwise_ui(CRITERIA, f)
          IN  /\ build_matrix(CRITERIA, main_pairs).kind = "matrix"
              /\ submissions' = save_submission(sessionUser.id, encode_pairs(main_pairs))
    /\ run' = [run EXCEPT !.pc = "done", !.body = "Isi Kuesioner"]
    /\ UNCHANGED <<users, sessionUser>>
    /\ UNCHANGED coreVars

\* page "Hasil Saya": shows latest_submission(user["id"]); changes nothing
PageHasil ==
    /\ run.pc = "page"
    /\ "Hasil Saya" \in Pages(sessionUser)
    /\ run' = [run EXCEPT !.pc = "done", !.body = "Hasil Saya"]
    /\ UNCHANGED <<users, submissions, sessionUser>>
    /\ UNCHANGED coreVars

\* page "Admin - Gabungan Pakar": lines 308-329
PageAdmin ==
    /\ run.pc = "page"
    /\ "Admin" \in Pages(sessionUser)
    /\ run' = [run EXCEPT !.pc = "done", !.body = "Admin", !.admin = admin_page]
    /\ UNCHANGED <<users, submissions, sessionUser>>
    /\ UNCHANGED coreVars

InitApp ==
    /\ users = <<>>
    /\ submissions = <<>>
    /\ sessionUser = NoUser
    /\ run = NoRun
    /\ variant = "Kriteria"
    /\ items = CRITERIA
    /\ pairs = <<>>
    /\ vals = <<>>
    /\ stage = "input"
    /\ out = NoOut

NextApp == Sidebar \/ PageKuesioner \/ PageSimpan \/ PageHasil \/ PageAdmin

SpecApp == InitApp /\ [][NextApp]_vars

(***************************************************************************)
(* Claims about the application (SpecApp).                                 *)
(***************************************************************************)
AdminRan == run.pc = "done" /\ run.body = "Admin"

\* C8: an aggregation over zero matrices fails before the weight and
\* consistency steps: no aggregate is computed and ahp_weights is not called.
C8_EmptyAggregationRejected ==
    (AdminRan /\ Len(latest_all) = 0) =>
        /\ run.admin.ended = "raised"
        /\ run.admin.GM.kind = "none"
        /\ \A k \in 1..Len(run.admin.called) : run.admin.called[k] # "ahp_weights"

\* the positions in the table "submissions" of the rows of user `uid`
RowsOf(uid) == {k \in 1..Len(submissions) : submissions[k].user_id = uid}

\* the value a stored submission holds for the criteria pair (i, j), i < j
Stored(sub, i, j) ==
    LET k == CHOOSE k \in 1..Len(sub.main_pairs) :
                sub.main_pairs[k].key = JoinKey(CRITERIA[i], CRITERIA[j])
    IN  sub.main_pairs[k].v

\* the comparison matrix of a stored submission
MatrixOf(sub) ==
    [i \in 1..Len(CRITERIA) |-> [j \in 1..Len(CRITERIA) |->
        IF i = j THEN One
        ELSE IF i < j THEN Stored(sub, i, j)
        ELSE RInv(Stored(sub, j, i))]]

\* C9: the admin aggregation takes exactly one matrix per user that has a
\* submission, built from that user's last inserted submission (the one with
\* the highest id), and none for a user without submissions.
C9_OneLatestMatrixPerUser ==
    AdminRan =>
        LET inp == run.admin.inputs
            experts == {u \in 1..Len(users) : RowsOf(users[u].id) # {}}
        IN  /\ Len(inp) = Cardinality(experts)
            /\ \A u \in experts :
                  LET last == submissions[Last(RowsOf(users[u].id))]
                  IN  /\ \A m \in RowsOf(users[u].id) : submissions[m].id <= last.id
                      /\ \E k \in 1..Len(inp) :
                            /\ inp[k].uid = users[u].id
                            /\ inp[k].sid = last.id
                            /\ inp[k].M = MatrixOf(last)
                            /\ \A m \in 1..Len(inp) : inp[m].uid = inp[k].uid => m = k

\* C9 witness: the admin page has run when a user had saved two submissions
\* with different judgments.
C9_Witness ==
    /\ AdminRan
    /\ \E a, b \in 1..Len(submissions) :
          /\ a < b
          /\ submissions[a].user_id = submissions[b].user_id
          /\ MatrixOf(submissions[a]) # MatrixOf(submissions[b])
    /\ Len(run.admin.inputs) = 1

\* C10: a page body runs only with a session user, the admin page only with a
\* session user whose is_admin is true, and a run in Logout mode, or with a
\* failed login and no prior session user, stops before any page body.
C10_PagesNeedSessionUser ==
    /\ (run.pc = "page" \/ run.body # "none") => sessionUser # NoUser
    /\ run.body = "Admin" => sessionUser.is_admin
    /\ run.mode = "Logout" => run.pc = "done" /\ run.body = "none"
    /\ (run.loginFailed /\ ~run.priorUser) => run.pc = "done" /\ run.body = "none"

\* C10 witness: the admin page has run in a script run whose login failed,
\* for the administrator logged in by an earlier run.
C10_Witness ==
    /\ AdminRan
    /\ run.mode = "Login"
    /\ run.loginFailed
    /\ sessionUser.is_admin

=============================================================================
